---------------------------- MODULE Spec2Model ----------------------------
(***************************************************************************)
(* A model of dags/example_astronauts.py: the tasks of the                 *)
(* example_astronauts DAG that fetch the astronaut list, the weather and   *)
(* the spacecraft position, and that load and save the rolling history     *)
(* file /tmp/astronaut_history/spacecraft_history.csv.                     *)
(*                                                                         *)
(* Numbers.  Python floats are held in hundredths (7.66 km/s is 766,       *)
(* 45.0 degrees is 4500, 22.5 degrees is 2250); Python ints (altitude_km,  *)
(* weather_code, astronaut_count, the epoch timestamp) are held as         *)
(* themselves.                                                             *)
(*                                                                         *)
(* Optional values.  An XCom entry that holds nothing is <<>>, one that    *)
(* holds v is <<v>>.                                                       *)
(*                                                                         *)
(* Runs.  Airflow keeps the task instances and XComs of each DAG run       *)
(* apart; a slot s holds the task instances of one run at a time.          *)
(***************************************************************************)
EXTENDS Integers, Sequences, FiniteSets, TLC

VARIABLES
    historyFile,  \* the file spacecraft_history.csv on disk
    reportDir,    \* the files of the directory /tmp/astronaut_reports
    clock,        \* the wall clock read by dt.now()
    runs,         \* number of DAG runs triggered so far
    ti,           \* ti[s][t]: state of task t in the run held by slot s
    tries,        \* tries[s][t]: failed attempts of task t in that run
    resp,         \* resp[s][t]: the HTTP response the last attempt of t received
    xcom          \* xcom[s][t]: what task t pushed / returned in that run

vars == <<historyFile, reportDir, clock, runs, ti, tries, resp, xcom>>

-----------------------------------------------------------------------------
(* Bounds of the model *)

\* DAG runs triggered in one behaviour
MaxRuns == 2
\* records a history file found at start may hold beyond HISTORY_LIMIT
MaxExtra == 1
\* people in the astronaut list handed to enrich_astronaut_data
MaxPeople == 2

-----------------------------------------------------------------------------
(* Program constants *)

\* default_args={"retries": 3}
RETRIES == 3
\* if len(updated_history) > 100: updated_history = updated_history.tail(100)
HISTORY_LIMIT == 100
\* velocity_kmh = 27600, in hundredths
VELOCITY_KMH == 2760000
\* velocity_kms = 7.66, in hundredths
VELOCITY_KMS == 766
\* altitude_km = 420
ALTITUDE_KM == 420
\* bearing = 45.0, in hundredths
BEARING_NORTHEAST == 4500
\* bearing = 135.0, in hundredths
BEARING_SOUTHEAST == 13500
\* "trajectory_bearing": 90.0 of the fallback, in hundredths
BEARING_DEFAULT == 9000
\* "temperature_2m": 20.0 of the fallback, in hundredths
DEFAULT_TEMPERATURE == 2000
\* "wind_speed_10m": 10.0 of the fallback, in hundredths
DEFAULT_WIND_SPEED == 1000

None == <<>>
Some(v) == <<v>>

-----------------------------------------------------------------------------
(* The DAG *)

Tasks ==
    { "get_astronauts", "enrich_astronaut_data", "get_weather_data",
      "get_spacecraft_tracking_data", "load_historical_spacecraft_data",
      "save_spacecraft_history" }

\* the tasks that render and report; with Tasks, the whole DAG
ReportTasks ==
    { "print_astronaut_craft", "combine_data", "analyze_correlation",
      "generate_html_report", "print_report_location" }

DagTasks == Tasks \cup ReportTasks

\* the dependencies with analyze_correlation not waiting for the history
UpstreamAnalyzeEarly(t) ==
    CASE t = "enrich_astronaut_data" -> {"get_astronauts"}
      [] t = "save_spacecraft_history" ->
            { "enrich_astronaut_data", "get_spacecraft_tracking_data",
              "load_historical_spacecraft_data" }
      [] t = "print_astronaut_craft" -> {"enrich_astronaut_data"}
      [] t = "combine_data" ->
            { "enrich_astronaut_data", "get_weather_data",
              "get_spacecraft_tracking_data" }
      [] t = "analyze_correlation" -> {"combine_data"}
      [] t = "generate_html_report" ->
            { "enrich_astronaut_data", "get_weather_data",
              "get_spacecraft_tracking_data", "combine_data",
              "save_spacecraft_history" }
      [] t = "print_report_location" -> {"generate_html_report"}
      [] OTHER -> {}

\* the tasks whose return values task t takes as arguments
Upstream(t) ==
    CASE t = "enrich_astronaut_data" -> {"get_astronauts"}
      [] t = "save_spacecraft_history" ->
            { "enrich_astronaut_data", "get_spacecraft_tracking_data",
              "load_historical_spacecraft_data" }
      [] t = "print_astronaut_craft" -> {"enrich_astronaut_data"}
      [] t = "combine_data" ->
            { "enrich_astronaut_data", "get_weather_data",
              "get_spacecraft_tracking_data" }
      [] t = "analyze_correlation" ->
            {"combine_data", "save_spacecraft_history"}
      [] t = "generate_html_report" ->
            { "enrich_astronaut_data", "get_weather_data",
              "get_spacecraft_tracking_data", "combine_data",
              "save_spacecraft_history" }
      [] t = "print_report_location" -> {"generate_html_report"}
      [] OTHER -> {}

\* a task instance is runnable when it is not finished and all its upstream
\* tasks have succeeded (trigger rule all_success)
Runnable(s, t) ==
    /\ ti[s][t] = "pending"
    /\ \A u \in Upstream(t) : ti[s][u] = "success"

\* the task function returned: the task instance succeeds
Succeed(s, t) ==
    /\ ti' = [ti EXCEPT ![s][t] = "success"]
    /\ tries' = tries

\* a task instance given one attempt more than retries + 1
RaiseOnceMore(s, t) ==
    /\ tries' = [tries EXCEPT ![s][t] = @ + 1]
    /\ ti' = [ti EXCEPT ![s][t] =
                IF tries[s][t] + 1 > RETRIES + 1 THEN "failed" ELSE "pending"]
    /\ xcom' = xcom

\* the task function raised: the attempt is retried while retries are left
Raise(s, t) ==
    /\ tries' = [tries EXCEPT ![s][t] = @ + 1]
    /\ ti' = [ti EXCEPT ![s][t] =
                IF tries[s][t] + 1 > RETRIES THEN "failed" ELSE "pending"]
    /\ xcom' = xcom


-----------------------------------------------------------------------------
(* HTTP responses *)

FetchTasks ==
    {"get_astronauts", "get_weather_data", "get_spacecraft_tracking_data"}

\* the keys under which a run's XComs are stored: each task's return value,
\* and the value get_astronauts pushes under its own key
XComKeys == Tasks \cup {"number_of_people_in_space"}

\* A decimal number as the JSON text the API sends ("-1.00"): a sign and the
\* digits, the digits read in hundredths.
DecimalText(neg, digits) == [neg |-> neg, digits |-> digits]

\* float(text) with the sign of the text lost
FloatUnsigned(text) == text.digits

\* float(text)
Float(text) == IF text.neg THEN 0 - text.digits ELSE text.digits

\* What requests.get / raise_for_status / r.json() and the lookups that follow
\* can meet:
\*   "ok"             a 200 answer with the expected fields
\*   "request_error"  requests.exceptions.RequestException (no connection,
\*                    timeout, HTTP error status, a body that is not JSON)
\*   "none"           no attempt was made yet
\* The answers drawn below are well formed: a 200 answer carries the fields
\* the task reads.
NoResponse == [kind |-> "none", body |-> None]
RequestError == [kind |-> "request_error", body |-> None]
Ok(body) == [kind |-> "ok", body |-> Some(body)]

LatitudeTexts ==
    {DecimalText(TRUE, 100), DecimalText(FALSE, 0), DecimalText(FALSE, 100)}
LongitudeTexts == {DecimalText(FALSE, 100)}
Timestamps == {1000}

\* iss-now.json: {"iss_position": {"latitude": "..", "longitude": ".."},
\*                "timestamp": n}
IssResponses ==
    { Ok([latitude |-> la, longitude |-> lo, timestamp |-> ts]) :
        la \in LatitudeTexts, lo \in LongitudeTexts, ts \in Timestamps }
    \cup {RequestError}

\* forecast: {"current": {"temperature_2m": .., "wind_speed_10m": ..,
\*                        "weather_code": ..}}
WeatherResponses ==
    { Ok([temperature_2m |-> 3150, wind_speed_10m |-> 1200, weather_code |-> 3]),
      RequestError }

\* astros.json: {"number": n, "people": [{"name": .., "craft": ..}, ...]}
PeopleLists ==
    { << [name |-> "Oleg", craft |-> "ISS"] >> }

AstroResponses ==
    { Ok([number |-> Len(p), people |-> p]) : p \in PeopleLists }
    \cup {RequestError}

-----------------------------------------------------------------------------
(* get_astronauts *)

get_astronauts(s) ==
    /\ Runnable(s, "get_astronauts")
    /\ \E r \in AstroResponses :
          /\ resp' = [resp EXCEPT ![s]["get_astronauts"] = r]
          /\ IF r.kind = "ok"
             THEN /\ Succeed(s, "get_astronauts")
                  /\ xcom' = [xcom EXCEPT
                        ![s]["number_of_people_in_space"] = Some(r.body[1].number),
                        ![s]["get_astronauts"] = Some(r.body[1].people)]
             ELSE Raise(s, "get_astronauts")
    /\ UNCHANGED <<historyFile, reportDir, clock, runs>>

-----------------------------------------------------------------------------
(* enrich_astronaut_data *)

\* the words the task looks for in a craft's name that the name contains
\* (Python's  word in craft)
WordsIn(craft) ==
    CASE craft = "ISS" -> {"ISS"}
      [] craft = "Tiangong" -> {"Tiangong"}
      [] craft = "Shenzhou 19" -> {"Shenzhou"}
      [] craft = "Soyuz MS-26" -> {"Soyuz"}
      [] craft = "Crew Dragon" -> {"Dragon", "Crew Dragon"}
      [] OTHER -> {}

\* a dict built anew from the keys the task knows of
EnrichRebuilt(astronaut) ==
    LET craft == IF "craft" \in DOMAIN astronaut THEN astronaut.craft ELSE ""
        words == WordsIn(craft)
    IN  [name |-> astronaut.name,
         craft |-> craft,
         country |-> IF words \cap {"Shenzhou", "Tiangong"} # {} THEN "China"
                     ELSE IF "ISS" \notin words /\ "Soyuz" \in words THEN "Russia"
                     ELSE IF "ISS" \notin words /\ "Dragon" \in words THEN "USA"
                     ELSE "International",
         company |-> IF "ISS" \in words THEN "ISS Expedition" ELSE "Space Agency"]

\* astronaut.copy() with the two keys set: every key of the input stays
Enrich(astronaut) ==
    LET craft == IF "craft" \in DOMAIN astronaut THEN astronaut.craft ELSE ""
        words == WordsIn(craft)
        agency ==
            IF "ISS" \in words
            THEN [country |-> "International", company |-> "ISS Expedition"]
            ELSE IF "Shenzhou" \in words \/ "Tiangong" \in words
            THEN [country |-> "China",
                  company |-> "China National Space Administration"]
            ELSE IF "Soyuz" \in words
            THEN [country |-> "Russia", company |-> "Roscosmos"]
            ELSE IF "Dragon" \in words \/ "Crew Dragon" \in words
            THEN [country |-> "USA", company |-> "SpaceX"]
            ELSE [country |-> "International", company |-> "Space Agency"]
    IN  [k \in DOMAIN astronaut \cup {"country", "company"} |->
            IF k = "country" THEN agency.country
            ELSE IF k = "company" THEN agency.company
            ELSE astronaut[k]]

enrich_astronaut_data(s) ==
    /\ Runnable(s, "enrich_astronaut_data")
    /\ LET astronaut_list == xcom[s]["get_astronauts"][1]
           enriched_list ==
               [i \in 1..Len(astronaut_list) |-> Enrich(astronaut_list[i])]
       IN  /\ Succeed(s, "enrich_astronaut_data")
           /\ xcom' = [xcom EXCEPT ![s]["enrich_astronaut_data"] = Some(enriched_list)]
    /\ UNCHANGED <<historyFile, reportDir, clock, runs, resp>>

-----------------------------------------------------------------------------
(* get_weather_data *)

WeatherDefault ==
    [temperature_2m |-> DEFAULT_TEMPERATURE,
     wind_speed_10m |-> DEFAULT_WIND_SPEED,
     weather_code |-> 0]

\* the task function with no except clause for the failed request
WeatherOutcomeUncaught(r) ==
    CASE r.kind = "ok" -> [raised |-> FALSE, value |-> Some(r.body[1])]
      [] OTHER -> [raised |-> TRUE, value |-> None]

\* the outcome of the task function on a response: it returns a value, or an
\* exception leaves it (the except clause catches RequestException alone)
WeatherOutcome(r) ==
    CASE r.kind = "ok" -> [raised |-> FALSE, value |-> Some(r.body[1])]
      [] r.kind = "request_error" ->
            [raised |-> FALSE, value |-> Some(WeatherDefault)]
      [] OTHER -> [raised |-> TRUE, value |-> None]

get_weather_data(s) ==
    /\ Runnable(s, "get_weather_data")
    /\ \E r \in WeatherResponses :
          /\ resp' = [resp EXCEPT ![s]["get_weather_data"] = r]
          /\ IF WeatherOutcome(r).raised
             THEN Raise(s, "get_weather_data")
             ELSE /\ Succeed(s, "get_weather_data")
                  /\ xcom' = [xcom EXCEPT
                        ![s]["get_weather_data"] = WeatherOutcome(r).value]
    /\ UNCHANGED <<historyFile, reportDir, clock, runs>>

-----------------------------------------------------------------------------
(* get_spacecraft_tracking_data *)

\* the try block with the southern branch labelled South
TrackingFromFixMislabelled(data) ==
    LET latitude == Float(data.latitude)
    IN  [latitude |-> latitude,
         longitude |-> Float(data.longitude),
         velocity_kmh |-> VELOCITY_KMH,
         velocity_kms |-> VELOCITY_KMS,
         trajectory_bearing |->
             IF latitude > 0 THEN BEARING_NORTHEAST ELSE BEARING_SOUTHEAST,
         trajectory_direction |->
             IF latitude > 0 THEN "Northeast" ELSE "South",
         altitude_km |-> ALTITUDE_KM,
         timestamp |-> data.timestamp]

\* the try block with the southern bearing given as 45 degrees below east
\* of north, -45.0, and not brought into [0, 360)
TrackingFromFixSignedBearing(data) ==
    LET latitude == Float(data.latitude)
    IN  [latitude |-> latitude,
         longitude |-> Float(data.longitude),
         velocity_kmh |-> VELOCITY_KMH,
         velocity_kms |-> VELOCITY_KMS,
         trajectory_bearing |->
             IF latitude > 0 THEN BEARING_NORTHEAST ELSE 0 - BEARING_NORTHEAST,
         trajectory_direction |->
             IF latitude > 0 THEN "Northeast" ELSE "Southeast",
         altitude_km |-> ALTITUDE_KM,
         timestamp |-> data.timestamp]

\* the try block, from the parsed fields to tracking_data
TrackingFromFix(data) ==
    LET latitude == Float(data.latitude)
        longitude == Float(data.longitude)
        timestamp == data.timestamp
    IN  [latitude |-> latitude,
         longitude |-> longitude,
         velocity_kmh |-> VELOCITY_KMH,
         velocity_kms |-> VELOCITY_KMS,
         trajectory_bearing |->
             IF latitude > 0 THEN BEARING_NORTHEAST ELSE BEARING_SOUTHEAST,
         trajectory_direction |->
             IF latitude > 0 THEN "Northeast" ELSE "Southeast",
         altitude_km |-> ALTITUDE_KM,
         timestamp |-> timestamp]

\* the except block's value
TrackingDefault ==
    [latitude |-> 0,
     longitude |-> 0,
     velocity_kmh |-> VELOCITY_KMH,
     velocity_kms |-> VELOCITY_KMS,
     trajectory_bearing |-> BEARING_DEFAULT,
     trajectory_direction |-> "East",
     altitude_km |-> ALTITUDE_KM,
     timestamp |-> 0]

\* the task function with no except clause for the failed request
TrackingOutcomeUncaught(r) ==
    CASE r.kind = "ok" ->
            [raised |-> FALSE, value |-> Some(TrackingFromFix(r.body[1]))]
      [] OTHER -> [raised |-> TRUE, value |-> None]

\* the outcome of the task function on a response
TrackingOutcome(r) ==
    CASE r.kind = "ok" ->
            [raised |-> FALSE, value |-> Some(TrackingFromFix(r.body[1]))]
      [] r.kind = "request_error" ->
            [raised |-> FALSE, value |-> Some(TrackingDefault)]
      [] OTHER -> [raised |-> TRUE, value |-> None]

get_spacecraft_tracking_data(s) ==
    /\ Runnable(s, "get_spacecraft_tracking_data")
    /\ \E r \in IssResponses :
          /\ resp' = [resp EXCEPT ![s]["get_spacecraft_tracking_data"] = r]
          /\ IF TrackingOutcome(r).raised
             THEN Raise(s, "get_spacecraft_tracking_data")
             ELSE /\ Succeed(s, "get_spacecraft_tracking_data")
                  /\ xcom' = [xcom EXCEPT
                        ![s]["get_spacecraft_tracking_data"] =
                            TrackingOutcome(r).value]
    /\ UNCHANGED <<historyFile, reportDir, clock, runs>>

-----------------------------------------------------------------------------
(* The history: pandas DataFrames and the CSV file *)

\* A value of a text column (countries, companies).  The text is held as the
\* sequence of the names that ", ".join put together, so "" is <<>>.  pandas
\* holds a missing text as NaN.
Str(parts) == [nan |-> FALSE, parts |-> parts]
NaN == [nan |-> TRUE, parts |-> <<>>]

Columns ==
    << "timestamp", "date", "astronaut_count", "spacecraft_speed_kmh",
       "spacecraft_speed_kms", "trajectory_bearing", "trajectory_direction",
       "latitude", "longitude", "altitude_km", "countries", "companies" >>

\* pd.DataFrame(columns=[...])
EmptyHistory == [columns |-> Columns, rows |-> <<>>]

\* DataFrame.to_csv(index=False): a cell of a text column is written as its
\* text and NaN as the empty text; a number is written as the decimal text
\* that reads back as the same number
ToCsvCell(v) == IF v.nan THEN <<>> ELSE v.parts
ToCsvRow(row) ==
    [row EXCEPT !.countries = ToCsvCell(@), !.companies = ToCsvCell(@)]
ToCsv(df) ==
    [exists |-> TRUE, parses |-> TRUE, columns |-> df.columns,
     rows |-> [i \in 1..Len(df.rows) |-> ToCsvRow(df.rows[i])]]

\* pd.read_csv: the empty text reads as NaN
ReadCsvCell(text) == IF text = <<>> THEN NaN ELSE Str(text)
ReadCsvRow(line) ==
    [line EXCEPT !.countries = ReadCsvCell(@), !.companies = ReadCsvCell(@)]
ReadCsv(file) ==
    [columns |-> file.columns,
     rows |-> [i \in 1..Len(file.rows) |-> ReadCsvRow(file.rows[i])]]

\* no file at that path
NoFile == [exists |-> FALSE, parses |-> FALSE, columns |-> <<>>, rows |-> <<>>]
\* a file pd.read_csv raises on (an empty file, bytes that are no CSV)
BrokenFile == [exists |-> TRUE, parses |-> FALSE, columns |-> <<>>, rows |-> <<>>]

-----------------------------------------------------------------------------
(* load_historical_spacecraft_data *)

\* the task with no except clause around pd.read_csv: what it reads from a
\* file that does not parse is no DataFrame of the expected columns
LoadedHistoryUncaught(file) ==
    IF file.exists THEN ReadCsv(file) ELSE EmptyHistory

\* what the task returns for the file it finds
LoadedHistory(file) ==
    IF file.exists
    THEN IF file.parses THEN ReadCsv(file) ELSE EmptyHistory
    ELSE EmptyHistory

load_historical_spacecraft_data(s) ==
    /\ Runnable(s, "load_historical_spacecraft_data")
    /\ Succeed(s, "load_historical_spacecraft_data")
    /\ xcom' = [xcom EXCEPT
          ![s]["load_historical_spacecraft_data"] = Some(LoadedHistory(historyFile))]
    /\ UNCHANGED <<historyFile, reportDir, clock, runs, resp>>

-----------------------------------------------------------------------------
(* save_spacecraft_history *)

\* the set of the values of field f in a list of records
FieldSet(list, f) == { list[i][f] : i \in 1..Len(list) }

\* ", ".join(set(..)): a set is iterated in an order Python does not fix, so
\* the joined text is one of the orderings of the set
JoinedTexts(S) ==
    { q \in [1..Cardinality(S) -> S] : \A x \in S : \E i \in DOMAIN q : q[i] = x }

NewRecord(tracking, number_of_people, current_time, countries, companies) ==
    [timestamp |-> tracking.timestamp,
     date |-> current_time,
     astronaut_count |-> number_of_people,
     spacecraft_speed_kmh |-> tracking.velocity_kmh,
     spacecraft_speed_kms |-> tracking.velocity_kms,
     trajectory_bearing |-> tracking.trajectory_bearing,
     trajectory_direction |-> tracking.trajectory_direction,
     latitude |-> tracking.latitude,
     longitude |-> tracking.longitude,
     altitude_km |-> tracking.altitude_km,
     countries |-> Str(countries),
     companies |-> Str(companies)]

\* pd.concat([history_df, new_record], ignore_index=True)
Concat(history_df, new_record) ==
    [columns |-> history_df.columns, rows |-> Append(history_df.rows, new_record)]

\* DataFrame.head(n) where tail(n) is meant
HeadRows(df, n) ==
    IF Len(df.rows) <= n
    THEN df
    ELSE [columns |-> df.columns, rows |-> SubSeq(df.rows, 1, n)]

\* DataFrame.tail(n)
TailRows(df, n) ==
    IF Len(df.rows) <= n
    THEN df
    ELSE [columns |-> df.columns,
          rows |-> SubSeq(df.rows, Len(df.rows) - n + 1, Len(df.rows))]

\* the cut decided on the length before the new record was appended
KeepLastLate(updated_history) ==
    IF Len(updated_history.rows) - 1 > HISTORY_LIMIT
    THEN TailRows(updated_history, HISTORY_LIMIT)
    ELSE updated_history

\* if len(updated_history) > 100: updated_history = updated_history.tail(100)
KeepLast(updated_history) ==
    IF Len(updated_history.rows) > HISTORY_LIMIT
    THEN TailRows(updated_history, HISTORY_LIMIT)
    ELSE updated_history

save_spacecraft_history(s) ==
    /\ Runnable(s, "save_spacecraft_history")
    /\ LET astronauts == xcom[s]["enrich_astronaut_data"][1]
           tracking == xcom[s]["get_spacecraft_tracking_data"][1]
           history_df == xcom[s]["load_historical_spacecraft_data"][1]
           pulled == xcom[s]["number_of_people_in_space"]
           number_of_people ==
               IF pulled = None THEN Len(astronauts) ELSE pulled[1]
       IN  \E countries \in JoinedTexts(FieldSet(astronauts, "country")),
              companies \in JoinedTexts(FieldSet(astronauts, "company")) :
              LET new_record ==
                      NewRecord(tracking, number_of_people, clock,
                                countries, companies)
                  updated_history == KeepLast(Concat(history_df, new_record))
              IN  /\ historyFile' = ToCsv(updated_history)
                  /\ Succeed(s, "save_spacecraft_history")
                  /\ xcom' = [xcom EXCEPT
                        ![s]["save_spacecraft_history"] = Some(updated_history)]
    /\ clock' = clock + 1
    /\ UNCHANGED <<reportDir, runs, resp>>

-----------------------------------------------------------------------------
(* DAG runs *)

Slots == {1, 2}

\* a task instance that will not run (again) in its run
Finished(s, t) ==
    ti[s][t] \in {"success", "failed", "upstream_failed", "skipped"}

\* the slot holds no run that is still going
Idle(s) == \A t \in DOMAIN ti[s] : ti[s][t] = "none" \/ Finished(s, t)

\* a task one of whose upstream tasks failed is not run
UpstreamFailed(s) ==
    /\ \E t \in DOMAIN ti[s] :
          /\ ti[s][t] = "pending"
          /\ \E u \in Upstream(t) : ti[s][u] \in {"failed", "upstream_failed"}
          /\ ti' = [ti EXCEPT ![s][t] = "upstream_failed"]
    /\ UNCHANGED <<historyFile, reportDir, clock, runs, tries, resp, xcom>>

\* a DAG run is triggered (schedule=None: by hand or through the API); its
\* task instances and XComs are its own
TriggerRun(s) ==
    /\ runs < MaxRuns
    /\ Idle(s)
    /\ runs' = runs + 1
    /\ ti' = [ti EXCEPT ![s] = [t \in DOMAIN ti[s] |-> "pending"]]
    /\ tries' = [tries EXCEPT ![s] = [t \in DOMAIN tries[s] |-> 0]]
    /\ resp' = [resp EXCEPT ![s] = [t \in FetchTasks |-> NoResponse]]
    /\ xcom' = [xcom EXCEPT ![s] = [k \in DOMAIN xcom[s] |-> None]]
    /\ UNCHANGED <<historyFile, reportDir, clock>>

RunTask(s) ==
    \/ get_astronauts(s)
    \/ enrich_astronaut_data(s)
    \/ get_weather_data(s)
    \/ get_spacecraft_tracking_data(s)
    \/ load_historical_spacecraft_data(s)
    \/ save_spacecraft_history(s)
    \/ UpstreamFailed(s)

-----------------------------------------------------------------------------
(* print_astronaut_craft: one mapped task instance for each astronaut *)

print_astronaut_craft(s) ==
    /\ Runnable(s, "print_astronaut_craft")
    /\ LET people == xcom[s]["enrich_astronaut_data"][1]
       IN  IF people = <<>>
           THEN \* nothing to map over: the task is skipped
                /\ ti' = [ti EXCEPT ![s]["print_astronaut_craft"] = "skipped"]
                /\ UNCHANGED <<tries, xcom>>
           ELSE IF \A i \in 1..Len(people) :
                      {"craft", "name"} \subseteq DOMAIN people[i]
           THEN Succeed(s, "print_astronaut_craft") /\ xcom' = xcom
           ELSE \* person_in_space["craft"]: KeyError
                Raise(s, "print_astronaut_craft")
    /\ UNCHANGED <<historyFile, reportDir, clock, runs, resp>>

-----------------------------------------------------------------------------
(* combine_data *)

CombinedRow(number_of_people, countries, companies, tracking, weather) ==
    [astronaut_count |-> number_of_people,
     countries |-> Str(countries),
     companies |-> Str(companies),
     spacecraft_speed_kmh |-> tracking.velocity_kmh,
     spacecraft_speed_kms |-> tracking.velocity_kms,
     trajectory_bearing |-> tracking.trajectory_bearing,
     trajectory_direction |-> tracking.trajectory_direction,
     spacecraft_latitude |-> tracking.latitude,
     spacecraft_longitude |-> tracking.longitude,
     spacecraft_altitude_km |-> tracking.altitude_km,
     temperature |-> weather.temperature_2m,
     wind_speed |-> weather.wind_speed_10m,
     weather_code |-> weather.weather_code]

combine_data(s) ==
    /\ Runnable(s, "combine_data")
    /\ LET astronauts == xcom[s]["enrich_astronaut_data"][1]
           weather == xcom[s]["get_weather_data"][1]
           tracking == xcom[s]["get_spacecraft_tracking_data"][1]
           pulled == xcom[s]["number_of_people_in_space"]
           number_of_people ==
               IF pulled = None THEN Len(astronauts) ELSE pulled[1]
       IN  \E countries \in JoinedTexts(FieldSet(astronauts, "country")),
              companies \in JoinedTexts(FieldSet(astronauts, "company")) :
              /\ Succeed(s, "combine_data")
              /\ xcom' = [xcom EXCEPT
                    ![s]["combine_data"] =
                        Some(<< CombinedRow(number_of_people, countries,
                                            companies, tracking, weather) >>)]
    /\ UNCHANGED <<historyFile, reportDir, clock, runs, resp>>

-----------------------------------------------------------------------------
(* analyze_correlation: prints, returns None *)

analyze_correlation(s) ==
    /\ Runnable(s, "analyze_correlation")
    /\ Succeed(s, "analyze_correlation")
    /\ UNCHANGED <<historyFile, reportDir, clock, runs, resp, xcom>>

-----------------------------------------------------------------------------
(* generate_html_report *)

\* /tmp/astronaut_reports/astronaut_report_<time>.html
ReportPath(time) == [name |-> "astronaut_report", time |-> time]
\* /tmp/astronaut_reports/report_failed.html
ReportFailedPath == [name |-> "report_failed", time |-> 0]

\* Path(report_path).exists()
ReportExists(path) ==
    path.name = "astronaut_report" /\ path.time \in reportDir.reports

\* the whole body is one try block: a failure to write the file is caught
\* and the default path returned
generate_html_report(s) ==
    /\ Runnable(s, "generate_html_report")
    /\ \E written \in BOOLEAN :
          IF written
          THEN /\ reportDir' = [reportDir EXCEPT !.reports = @ \cup {clock}]
               /\ xcom' = [xcom EXCEPT
                     ![s]["generate_html_report"] = Some(ReportPath(clock))]
          ELSE /\ reportDir' = reportDir
               /\ xcom' = [xcom EXCEPT
                     ![s]["generate_html_report"] = Some(ReportFailedPath)]
    /\ Succeed(s, "generate_html_report")
    /\ UNCHANGED <<historyFile, clock, runs, resp>>

-----------------------------------------------------------------------------
(* print_report_location: prints, copies the report to latest_report.html,
   returns None *)

print_report_location(s) ==
    /\ Runnable(s, "print_report_location")
    /\ LET report_path == xcom[s]["generate_html_report"][1]
       IN  IF ReportExists(report_path)
           THEN \E copied \in BOOLEAN :
                   reportDir' =
                       IF copied
                       THEN [reportDir EXCEPT !.latest = Some(report_path.time)]
                       ELSE reportDir
           ELSE reportDir' = reportDir
    /\ Succeed(s, "print_report_location")
    /\ UNCHANGED <<historyFile, clock, runs, resp, xcom>>

RunDagTask(s) ==
    \/ RunTask(s)
    \/ print_astronaut_craft(s)
    \/ combine_data(s)
    \/ analyze_correlation(s)
    \/ generate_html_report(s)
    \/ print_report_location(s)

-----------------------------------------------------------------------------
(* The history file a first run may find *)

\* a record as an earlier run wrote it: the i-th fix of a craft over the
\* equator, nobody aboard
PriorRecord(i) ==
    NewRecord(TrackingFromFix([latitude |-> DecimalText(FALSE, 0),
                               longitude |-> DecimalText(FALSE, 0),
                               timestamp |-> i]),
              0, 0, <<>>, <<>>)

PriorFile(n) ==
    ToCsv([columns |-> Columns, rows |-> [i \in 1..n |-> PriorRecord(i)]])

PriorLengths == {HISTORY_LIMIT - 1, HISTORY_LIMIT + MaxExtra}

InitialFiles == {NoFile, BrokenFile} \cup { PriorFile(n) : n \in PriorLengths }

-----------------------------------------------------------------------------
(* One run after another *)

\* /tmp/astronaut_reports before any report was written: no
\* astronaut_report_<time>.html, no latest_report.html
EmptyReportDir == [reports |-> {}, latest |-> None]

\* Spec follows the tasks that fetch, and that read and write the history
\* file: Tasks.

Init ==
    /\ historyFile \in InitialFiles
    /\ reportDir = EmptyReportDir
    /\ clock = 1
    /\ runs = 0
    /\ ti = [s \in Slots |-> [t \in Tasks |-> "none"]]
    /\ tries = [s \in Slots |-> [t \in Tasks |-> 0]]
    /\ resp = [s \in Slots |-> [t \in FetchTasks |-> NoResponse]]
    /\ xcom = [s \in Slots |-> [k \in XComKeys |-> None]]

\* the next run is triggered when the one before it is over, in the same slot
Next ==
    \/ TriggerRun(1)
    \/ RunTask(1)

Spec == Init /\ [][Next]_vars

-----------------------------------------------------------------------------
(* What the properties below speak of *)

Returned(s, t) == xcom[s][t] # None
Value(s, t) == xcom[s][t][1]

TRACKING == "get_spacecraft_tracking_data"
WEATHER == "get_weather_data"
LOAD == "load_historical_spacecraft_data"
SAVE == "save_spacecraft_history"

\* the fix a run's position request fetched
Fetched(s) == resp[s][TRACKING].kind = "ok"
Fix(s) == resp[s][TRACKING].body[1]

\* the sample before the current one: the last record of the history the run
\* loaded, which the run before it saved
HasEarlierSample(s) == Returned(s, LOAD) /\ Len(Value(s, LOAD).rows) > 0
EarlierSample(s) == Value(s, LOAD).rows[Len(Value(s, LOAD).rows)]

\* the 8-sector table, bearings in hundredths of a degree
SectorLabel(bearing) ==
    IF (33750 <= bearing /\ bearing < 36000) \/ (0 <= bearing /\ bearing < 2250)
    THEN "North"
    ELSE IF 2250 <= bearing /\ bearing < 6750 THEN "Northeast"
    ELSE IF 6750 <= bearing /\ bearing < 11250 THEN "East"
    ELSE IF 11250 <= bearing /\ bearing < 15750 THEN "Southeast"
    ELSE IF 15750 <= bearing /\ bearing < 20250 THEN "South"
    ELSE IF 20250 <= bearing /\ bearing < 24750 THEN "Southwest"
    ELSE IF 24750 <= bearing /\ bearing < 29250 THEN "West"
    ELSE IF 29250 <= bearing /\ bearing < 33750 THEN "Northwest"
    ELSE "no sector"

-----------------------------------------------------------------------------
(* C1 *)

\* C1: in every tracking result, of the success path and of the fallback,
\* both speeds are non-negative and the km/h speed is the km/s speed times
\* 3600.  (Both speeds are held in hundredths, so the factor is unchanged.)
C1_SpeedUnitsAgree ==
    \A s \in Slots :
        Returned(s, TRACKING) =>
            /\ Value(s, TRACKING).velocity_kmh >= 0
            /\ Value(s, TRACKING).velocity_kms >= 0
            /\ Value(s, TRACKING).velocity_kmh
                   = Value(s, TRACKING).velocity_kms * 3600

-----------------------------------------------------------------------------
(* C2 *)

\* C2: in every tracking result, of the success path and of the fallback,
\* the direction label is the one the 8-sector table gives for the result's
\* bearing.
C2_DirectionIsSectorOfBearing ==
    \A s \in Slots :
        Returned(s, TRACKING) =>
            Value(s, TRACKING).trajectory_direction
                = SectorLabel(Value(s, TRACKING).trajectory_bearing)

\* a fetched fix south of the equator was labelled
C2_Witness ==
    /\ Fetched(1)
    /\ Fix(1).latitude.neg
    /\ Returned(1, TRACKING)
    /\ Value(1, TRACKING).trajectory_direction = "Southeast"

-----------------------------------------------------------------------------
(* C3 *)

\* C3: the bearing of every tracking result, for any fetched position and
\* on the fallback path, is at least 0 and below 360 degrees.
C3_BearingInRange ==
    \A s \in Slots :
        Returned(s, TRACKING) =>
            /\ 0 <= Value(s, TRACKING).trajectory_bearing
            /\ Value(s, TRACKING).trajectory_bearing < 36000

\* a run of the fallback path after a run that fetched a fix north of the
\* equator
C3_Witness ==
    /\ resp[1][TRACKING].kind = "request_error"
    /\ Returned(1, TRACKING)
    /\ HasEarlierSample(1)
    /\ EarlierSample(1).trajectory_bearing = BEARING_NORTHEAST

-----------------------------------------------------------------------------
(* C4 *)

\* C4: whenever the time elapsed between the two position samples of an
\* estimate (the sample before and the current one) is zero or negative,
\* both speeds of the tracking result are 0.
C4_NoSpeedWithoutElapsedTime ==
    \A s \in Slots :
        ( /\ Returned(s, TRACKING)
          /\ HasEarlierSample(s)
          /\ Value(s, TRACKING).timestamp - EarlierSample(s).timestamp <= 0 )
        => /\ Value(s, TRACKING).velocity_kmh = 0
           /\ Value(s, TRACKING).velocity_kms = 0

-----------------------------------------------------------------------------
(* C5 *)

\* C5: for a craft now at latitude 0, longitude 1, that was at latitude 0,
\* longitude 0 at the sample before, the tracking result has a bearing of
\* about 90 degrees (within one degree) and the direction East.
C5_DueEastOnTheEquator ==
    \A s \in Slots :
        ( /\ Fetched(s)
          /\ Returned(s, TRACKING)
          /\ Value(s, TRACKING).latitude = 0
          /\ Value(s, TRACKING).longitude = 100
          /\ HasEarlierSample(s)
          /\ EarlierSample(s).latitude = 0
          /\ EarlierSample(s).longitude = 0 )
        => /\ Value(s, TRACKING).trajectory_bearing >= 8900
           /\ Value(s, TRACKING).trajectory_bearing <= 9100
           /\ Value(s, TRACKING).trajectory_direction = "East"

-----------------------------------------------------------------------------
(* C6 *)

\* C6: when the position request succeeds, the latitude, the longitude and
\* the timestamp of the tracking result are the values of the fetched fix,
\* and altitude_km is 420 in every tracking result, the fallback included.
C6_PositionCopiedAltitudeFixed ==
    \A s \in Slots :
        Returned(s, TRACKING) =>
            /\ Value(s, TRACKING).altitude_km = 420
            /\ Fetched(s) =>
                  /\ Value(s, TRACKING).latitude
                        = (IF Fix(s).latitude.neg THEN -1 ELSE 1)
                              * Fix(s).latitude.digits
                  /\ Value(s, TRACKING).longitude
                        = (IF Fix(s).longitude.neg THEN -1 ELSE 1)
                              * Fix(s).longitude.digits
                  /\ Value(s, TRACKING).timestamp = Fix(s).timestamp

\* a fix whose latitude and longitude differ, latitude below zero, was
\* fetched and returned
C6_Witness ==
    /\ Fetched(1)
    /\ Returned(1, TRACKING)
    /\ Value(1, TRACKING).latitude = -100
    /\ Value(1, TRACKING).longitude = 100
    /\ Value(1, TRACKING).timestamp = 1000

-----------------------------------------------------------------------------
(* C7 *)

\* C7: get_spacecraft_tracking_data does not fail: an attempt that met a
\* well-formed answer or a failed request ends in success with a result, and
\* on a failed request the result is the fixed default (latitude 0,
\* longitude 0, timestamp 0, bearing 90, direction East); get_weather_data
\* likewise returns its default (20.0, 10.0, code 0) on a failed request.
C7_FetchFailureGivesDefault ==
    \A s \in Slots :
        /\ resp[s][TRACKING].kind \in {"ok", "request_error"} =>
              /\ ti[s][TRACKING] = "success"
              /\ tries[s][TRACKING] = 0
              /\ Returned(s, TRACKING)
        /\ resp[s][TRACKING].kind = "request_error" =>
              /\ Value(s, TRACKING).latitude = 0
              /\ Value(s, TRACKING).longitude = 0
              /\ Value(s, TRACKING).timestamp = 0
              /\ Value(s, TRACKING).trajectory_bearing = 9000
              /\ Value(s, TRACKING).trajectory_direction = "East"
        /\ resp[s][WEATHER].kind = "request_error" =>
              /\ ti[s][WEATHER] = "success"
              /\ tries[s][WEATHER] = 0
              /\ Returned(s, WEATHER)
              /\ Value(s, WEATHER).temperature_2m = 2000
              /\ Value(s, WEATHER).wind_speed_10m = 1000
              /\ Value(s, WEATHER).weather_code = 0

\* both requests of one run failed
C7_Witness ==
    /\ resp[1][TRACKING].kind = "request_error"
    /\ resp[1][WEATHER].kind = "request_error"
    /\ ti[1][TRACKING] = "success"
    /\ ti[1][WEATHER] = "success"

-----------------------------------------------------------------------------
(* C8 *)

\* C8: after any sequence of runs, and whatever number of records the
\* history file held before, the history that save_spacecraft_history
\* returns and the history file it has written hold at most 100 records.
\* (Each save advances the clock, so clock > 1 says the file was written.)
C8_HistoryAtMostLimit ==
    /\ \A s \in Slots :
          Returned(s, SAVE) => Len(Value(s, SAVE).rows) <= 100
    /\ clock > 1 => Len(historyFile.rows) <= 100

\* a save of a run that had loaded more than 100 records
C8_Witness ==
    /\ Returned(1, SAVE)
    /\ Len(Value(1, LOAD).rows) > 100
    /\ Len(Value(1, SAVE).rows) = 100

-----------------------------------------------------------------------------
(* C9 *)

Min(a, b) == IF a < b THEN a ELSE b

\* C9: each save appends exactly one record for the current run: the saved
\* history is the loaded history followed by the new record, cut to its last
\* 100; so the new record is last, the other records are the most recent
\* ones of the loaded history in their order, and the file holds the same
\* records.
C9_SaveAppendsOneRecord ==
    \A s \in Slots :
        Returned(s, SAVE) =>
            LET loaded == Value(s, LOAD).rows
                saved == Value(s, SAVE).rows
                kept == Len(saved) - 1
                last == saved[Len(saved)]
                tracking == Value(s, TRACKING)
            IN  /\ Len(saved) = Min(Len(loaded) + 1, 100)
                /\ last.timestamp = tracking.timestamp
                /\ last.latitude = tracking.latitude
                /\ last.longitude = tracking.longitude
                /\ last.trajectory_bearing = tracking.trajectory_bearing
                /\ last.trajectory_direction = tracking.trajectory_direction
                /\ last.spacecraft_speed_kmh = tracking.velocity_kmh
                /\ last.spacecraft_speed_kms = tracking.velocity_kms
                /\ last.altitude_km = tracking.altitude_km
                /\ last.astronaut_count = Value(s, "number_of_people_in_space")
                /\ last.date = clock - 1
                /\ \A i \in 1..kept :
                      saved[i] = loaded[Len(loaded) - kept + i]
                /\ Len(historyFile.rows) = Len(saved)
                /\ \A i \in 1..Len(saved) :
                      /\ historyFile.rows[i].timestamp = saved[i].timestamp
                      /\ historyFile.rows[i].date = saved[i].date
                      /\ historyFile.rows[i].latitude = saved[i].latitude
                      /\ historyFile.rows[i].countries = saved[i].countries.parts

\* the second save onto a history that is full: the record of the run
\* before is kept and the oldest record is dropped
C9_Witness ==
    /\ Returned(1, SAVE)
    /\ Len(Value(1, LOAD).rows) = 100
    /\ Value(1, LOAD).rows[100].date = 1
    /\ Value(1, SAVE).rows[99].date = 1
    /\ Value(1, SAVE).rows[100].date = 2

-----------------------------------------------------------------------------
(* C10 *)

\* the history a run loaded is what the file holds: none of its records when
\* the file is missing or cannot be read, with the 12 expected columns, and
\* the records of the file otherwise
LoadedIsFile(s) ==
    LET loaded == Value(s, LOAD)
    IN  IF historyFile.exists /\ historyFile.parses
        THEN /\ loaded.columns = historyFile.columns
             /\ Len(loaded.rows) = Len(historyFile.rows)
             /\ \A i \in 1..Len(loaded.rows) :
                   /\ \A c \in { "timestamp", "date", "astronaut_count",
                                 "spacecraft_speed_kmh", "spacecraft_speed_kms",
                                 "trajectory_bearing", "trajectory_direction",
                                 "latitude", "longitude", "altitude_km" } :
                         loaded.rows[i][c] = historyFile.rows[i][c]
                   /\ loaded.rows[i].countries.parts = historyFile.rows[i].countries
                   /\ loaded.rows[i].companies.parts = historyFile.rows[i].companies
        ELSE /\ loaded.rows = <<>>
             /\ Len(loaded.columns) = 12
             /\ loaded.columns = Columns

\* C10: load_historical_spacecraft_data never fails on a missing or
\* unreadable history file: it returns an empty history with the 12 expected
\* columns then, and the records of the file otherwise (until the run's save
\* rewrites the file, the loaded history is what the file holds); and the
\* step that loads never changes the file.
C10_LoadNeverFailsNorWrites ==
    /\ [](\A s \in Slots :
            /\ ti[s][LOAD] \in {"none", "pending", "success"}
            /\ tries[s][LOAD] = 0
            /\ (Returned(s, LOAD) /\ ~Returned(s, SAVE)) => LoadedIsFile(s))
    /\ [][\A s \in Slots :
            (ti[s][LOAD] = "pending" /\ ti'[s][LOAD] # "pending")
                => /\ historyFile' = historyFile
                   /\ ti'[s][LOAD] = "success"]_vars

\* a run loaded from a file that cannot be read
C10_Witness ==
    /\ Returned(1, LOAD)
    /\ ~Returned(1, SAVE)
    /\ historyFile.exists
    /\ ~historyFile.parses
    /\ Value(1, LOAD).rows = <<>>

-----------------------------------------------------------------------------
(* enrich_astronaut_data on the lists it may be handed *)

\* the records of astros.json: a name and a craft; a record may lack the
\* craft (astronaut.get("craft", "")) or carry a key more
AstronautRecords ==
    { [name |-> "Oleg", craft |-> c] :
        c \in { "ISS", "Tiangong", "Shenzhou 19", "Soyuz MS-26", "Crew Dragon",
                "Starliner" } }
    \cup { [name |-> "Anne"],
           [name |-> "Sunita", craft |-> "ISS", agency |-> "NASA"] }

ListsUpTo(n) ==
    UNION { [1..k -> AstronautRecords] : k \in 0..n }

\* a run in which get_astronauts has returned the list p and no other task
\* has run yet
AfterGetAstronauts(p) ==
    /\ runs = 1
    /\ ti = [s \in Slots |->
               [t \in Tasks |->
                  IF s # 1 THEN "none"
                  ELSE IF t = "get_astronauts" THEN "success" ELSE "pending"]]
    /\ tries = [s \in Slots |-> [t \in Tasks |-> 0]]
    /\ resp = [s \in Slots |->
                 [t \in FetchTasks |->
                    IF s = 1 /\ t = "get_astronauts"
                    THEN Ok([number |-> Len(p), people |-> p])
                    ELSE NoResponse]]
    /\ xcom = [s \in Slots |->
                 [k \in XComKeys |->
                    IF s = 1 /\ k = "get_astronauts" THEN Some(p)
                    ELSE IF s = 1 /\ k = "number_of_people_in_space"
                    THEN Some(Len(p))
                    ELSE None]]

InitEnrich ==
    /\ historyFile = NoFile
    /\ reportDir = EmptyReportDir
    /\ clock = 1
    /\ \E p \in ListsUpTo(MaxPeople) : AfterGetAstronauts(p)

NextEnrich == enrich_astronaut_data(1)

SpecEnrich == InitEnrich /\ [][NextEnrich]_vars

ASTRONAUTS == "get_astronauts"
ENRICH == "enrich_astronaut_data"

-----------------------------------------------------------------------------
(* The whole DAG, one run after another *)

InitDag ==
    /\ historyFile = NoFile
    /\ reportDir = EmptyReportDir
    /\ clock = 1
    /\ runs = 0
    /\ ti = [s \in Slots |-> [t \in DagTasks |-> "none"]]
    /\ tries = [s \in Slots |-> [t \in DagTasks |-> 0]]
    /\ resp = [s \in Slots |-> [t \in FetchTasks |-> NoResponse]]
    /\ xcom = [s \in Slots |->
                 [k \in DagTasks \cup {"number_of_people_in_space"} |-> None]]

NextDag ==
    \/ TriggerRun(1)
    \/ RunDagTask(1)

SpecDag == InitDag /\ [][NextDag]_vars

\* the task instance has been attempted at least once in the run
Started(s, t) ==
    \/ ti[s][t] \in {"success", "failed"}
    \/ tries[s][t] > 0

\* the tasks whose outputs each task takes
TakesOutputOf(t) ==
    CASE t = "enrich_astronaut_data" -> {"get_astronauts"}
      [] t = "save_spacecraft_history" ->
            { "enrich_astronaut_data", "get_spacecraft_tracking_data",
              "load_historical_spacecraft_data" }
      [] t = "combine_data" ->
            { "enrich_astronaut_data", "get_weather_data",
              "get_spacecraft_tracking_data" }
      [] t = "analyze_correlation" ->
            {"combine_data", "save_spacecraft_history"}
      [] t = "generate_html_report" ->
            {"combine_data", "save_spacecraft_history"}
      [] t = "print_report_location" -> {"generate_html_report"}
      [] OTHER -> {}

\* C13: a task starts only after every task whose output it takes has
\* succeeded in the same run: enrich after get_astronauts; save after enrich,
\* tracking and load; combine after enrich, weather and tracking;
\* analyze_correlation and generate_html_report after combine and save;
\* print_report_location after generate_html_report.  So the history file is
\* read (load) before it is written (save) in a run
C13_StartsAfterItsInputs ==
    \A s \in Slots :
       /\ \A t \in DOMAIN ti[s] :
             Started(s, t) =>
                \A u \in TakesOutputOf(t) : ti[s][u] = "success"
       /\ Started(s, SAVE) => Returned(s, LOAD)

C13_Witness ==
    /\ \A t \in DagTasks : ti[1][t] = "success"
    /\ Len(historyFile.rows) = 2

\* C14: a failed request makes get_astronauts raise: it returns nothing and
\* pushes no number_of_people_in_space; it is attempted at most 4 times
\* (retries 3); once all attempts have failed the run saves no history record
\* and generates no report, and no step of a run whose get_astronauts has not
\* succeeded changes the history file or the report directory
C14_FailedFetchStopsTheRun ==
    /\ [](\A s \in Slots :
            /\ resp[s]["get_astronauts"].kind = "request_error" =>
                  /\ ti[s]["get_astronauts"] # "success"
                  /\ xcom[s]["get_astronauts"] = None
                  /\ xcom[s]["number_of_people_in_space"] = None
            /\ tries[s]["get_astronauts"] <= 4
            /\ ti[s]["get_astronauts"] = "pending" =>
                  tries[s]["get_astronauts"] < 4
            /\ ti[s]["get_astronauts"] = "failed" =>
                  /\ tries[s]["get_astronauts"] = 4
                  /\ ~Started(s, SAVE)
                  /\ ~Started(s, "generate_html_report")
                  /\ xcom[s][SAVE] = None
                  /\ xcom[s]["generate_html_report"] = None)
    /\ [][(ti[1]["get_astronauts"] \in {"pending", "failed"}
            /\ ti'[1]["get_astronauts"] \in {"pending", "failed"})
          => (historyFile' = historyFile /\ reportDir' = reportDir)]_vars

C14_Witness ==
    /\ ti[1]["get_astronauts"] = "failed"
    /\ ti[1][LOAD] = "success"
    /\ ti[1][SAVE] = "upstream_failed"
    /\ ti[1]["generate_html_report"] = "upstream_failed"
    /\ ti[1]["print_report_location"] = "upstream_failed"
    /\ runs = 2
    /\ historyFile # NoFile

-----------------------------------------------------------------------------
(* The whole DAG under the scheduler: a task instance that can run, be
   retried or be marked upstream_failed is not left waiting for ever.  A
   new run is triggered by hand, so nothing forces TriggerRun *)

\* the last run the bound allows, over any history file that earlier runs
\* or an earlier deployment may have left
InitDagFair ==
    /\ historyFile \in {NoFile, BrokenFile, PriorFile(MaxExtra)}
    /\ reportDir = EmptyReportDir
    /\ clock = 1
    /\ runs = MaxRuns - 1
    /\ ti = [s \in Slots |-> [t \in DagTasks |-> "none"]]
    /\ tries = [s \in Slots |-> [t \in DagTasks |-> 0]]
    /\ resp = [s \in Slots |-> [t \in FetchTasks |-> NoResponse]]
    /\ xcom = [s \in Slots |->
                 [k \in DagTasks \cup {"number_of_people_in_space"} |-> None]]

SpecDagFair == InitDagFair /\ [][NextDag]_vars /\ WF_vars(RunDagTask(1))

REPORT == "generate_html_report"
LOCATION == "print_report_location"

\* the run has saved its record, has its report path and has completed
\* print_report_location
Reported(s) ==
    /\ ti[s][LOCATION] = "success"
    /\ ti[s][SAVE] = "success"
    /\ Returned(s, SAVE)
    /\ Returned(s, REPORT)
    /\ Value(s, REPORT) # ReportFailedPath => ReportExists(Value(s, REPORT))

\* C15: once get_astronauts has succeeded, the run eventually completes
\* print_report_location, having saved a history record and generated its
\* report (or the default path, when the report file could not be written),
\* whatever the weather and position requests did: their failures are
\* replaced by default values
C15_RunReachesItsReport ==
    \A s \in Slots :
       (ti[s][ASTRONAUTS] = "success") ~> Reported(s)

C15_Witness ==
    /\ resp[1][WEATHER].kind = "request_error"
    /\ resp[1][TRACKING].kind = "request_error"
    /\ Value(1, WEATHER) = WeatherDefault
    /\ Reported(1)
    /\ Value(1, REPORT) # ReportFailedPath
    /\ Len(historyFile.rows) > 0

-----------------------------------------------------------------------------
(* Two runs at once: the DAG sets no max_active_runs, so a run may be
   triggered while another is going; both use the same history file *)

\* both runs have their astronauts and have enriched them
AfterEnrich(p) ==
    /\ runs = 2
    /\ ti = [s \in Slots |->
               [t \in Tasks |->
                  IF t \in {"get_astronauts", "enrich_astronaut_data"}
                  THEN "success" ELSE "pending"]]
    /\ tries = [s \in Slots |-> [t \in Tasks |-> 0]]
    /\ resp = [s \in Slots |->
                 [t \in FetchTasks |->
                    IF t = "get_astronauts"
                    THEN Ok([number |-> Len(p), people |-> p])
                    ELSE NoResponse]]
    /\ xcom = [s \in Slots |->
                 [k \in XComKeys |->
                    CASE k = "get_astronauts" -> Some(p)
                      [] k = "number_of_people_in_space" -> Some(Len(p))
                      [] k = "enrich_astronaut_data" ->
                            Some([i \in 1..Len(p) |-> Enrich(p[i])])
                      [] OTHER -> None]]

InitOverlap ==
    /\ historyFile \in {NoFile, PriorFile(MaxExtra)}
    /\ reportDir = EmptyReportDir
    /\ clock = 1
    /\ \E p \in PeopleLists : AfterEnrich(p)

NextOverlap ==
    \E s \in Slots :
       \/ get_weather_data(s)
       \/ get_spacecraft_tracking_data(s)
       \/ load_historical_spacecraft_data(s)
       \/ save_spacecraft_history(s)

SpecOverlap == InitOverlap /\ [][NextOverlap]_vars

\* the record the run appended: the last row of the history it saved
SavedRecord(s) == Value(s, SAVE).rows[Len(Value(s, SAVE).rows)]

\* the file holds the record the run appended
InFile(s) ==
    \E i \in 1..Len(historyFile.rows) :
       historyFile.rows[i] = ToCsvRow(SavedRecord(s))

\* C12: when two runs overlap so that both load the history file before
\* either saves (both loaded the same history, of fewer than 99 records), the
\* file after both saves holds the record of each run
C12_BothRecordsKept ==
    ( /\ Returned(1, SAVE)
      /\ Returned(2, SAVE)
      /\ Value(1, LOAD) = Value(2, LOAD)
      /\ Len(Value(1, LOAD).rows) < HISTORY_LIMIT - 1 )
    => (InFile(1) /\ InFile(2))

=============================================================================
